---- MODULE Spec2Model ----
(***************************************************************************)
(* A model of maasserver/rpc/regionservice.py: the RegionService (an RPC   *)
(* listener on an ephemeral port) and the RegionAdvertisingService (a      *)
(* TimerService that publishes this process's (name, address, port) rows   *)
(* in the shared PostgreSQL table "eventloops").                           *)
(*                                                                         *)
(* Each region controller process p \in Procs owns one RegionService and   *)
(* one RegionAdvertisingService.  A process has a reactor thread (service  *)
(* start/stop, Deferred callbacks, timer ticks) and worker threads started *)
(* by deferToThread (prepare, update, remove, dump).  The database runs    *)
(* one transaction per lock holder under READ COMMITTED isolation.         *)
(***************************************************************************)
EXTENDS Integers, Sequences, FiniteSets, TLC

\* ------------------------------------------------------------------ bounds
Procs == {"r1", "r2"}          \* eventloop.loop.name of each process
Addrs == {"a1", "a2"}          \* addresses get_all_interface_addresses() may yield
Ports == {4321, 4322}          \* ephemeral ports the OS may assign
MaxTime == 7                   \* minutes the clock may reach
MaxStops == 2                  \* calls of RegionService.stopService() per service

\* ------------------------------------------------------- program constants
PortMin == 1                   \* CHECK (port > 0 ...
PortMax == 65535               \*        ... AND port <= 65535)
TTL == 5                       \* INTERVAL '5 minutes'
Interval_slow == 1 + 1         \* a timer of 120 seconds
Interval == 1                  \* __init__(self, interval=60): 60 seconds

None == "None"                 \* an attribute that holds None
NoPort == <<>>                 \* getPort() returning None; <<n>> is port n

VARIABLES
    \* ---- RegionService, per process
    rs_running,     \* Service.running
    rs_starting,    \* self.starting: "None" | "pending" | "called"
    rs_result,      \* the result the starting Deferred holds once called
    rs_suppress,    \* the starting Deferred was cancelled: a late result is dropped
    rs_listen,      \* endpoint.listen(): "idle" | "inflight" | "done"
    rs_port,        \* self._port: "None" | "Port"
    port,           \* the listening Port: [state, num, closes]
    rs_stops,       \* outcome of each stopService() call, in call order
    rs_log,         \* failures handed to log.err by the starting chain
    gp              \* a worker thread inside getPort(): [pc, status, value]

rsVars == <<rs_running, rs_starting, rs_result, rs_suppress, rs_listen,
            rs_port, port, rs_stops, rs_log, gp>>

VARIABLES
    \* ---- the database shared by all processes
    clock,          \* the database server's time, in minutes
    tableExists,    \* the eventloops table is committed
    indexExists,    \* the index eventloops_name_idx is committed
    table,          \* the committed rows of eventloops
    txn,            \* per process, the open transaction of its lock holder
    \* ---- RegionAdvertisingService, per process
    ras_starting,   \* self.starting: "None" | "pending" | "called"
    ras_suppress,   \* the starting Deferred was cancelled
    ras_running,    \* Service.running
    ras_stop,       \* what stopService() returned and how it ended
    loop,           \* TimerService._loop: "absent" | "running" | "stopped" | "failed"
    thr,            \* per operation, the state of the thread that runs it
    ras_log,        \* failures handed to log.err
    dumped,         \* the list a dump() is returning to its caller
    due             \* the time for which the LoopingCall has its next call scheduled

dbVars == <<clock, tableExists, indexExists, table, txn>>
rasVars == <<ras_starting, ras_suppress, ras_running, ras_stop, loop, thr,
             ras_log, dumped, due>>

vars == <<rsVars, dbVars, rasVars>>

\* ============================================================ RegionService

\* RegionService.__init__ (and the class attribute starting = None)
RS_Init ==
    /\ rs_running = [p \in Procs |-> FALSE]
    /\ rs_starting = [p \in Procs |-> None]
    /\ rs_result = [p \in Procs |-> "unset"]
    /\ rs_suppress = [p \in Procs |-> FALSE]
    /\ rs_listen = [p \in Procs |-> "idle"]
    /\ rs_port = [p \in Procs |-> None]
    /\ port = [p \in Procs |-> [state |-> "unopened", num |-> 0, closes |-> 0]]
    /\ rs_stops = [p \in Procs |-> <<>>]
    /\ rs_log = [p \in Procs |-> {}]
    /\ gp = [p \in Procs |-> [pc |-> "idle", status |-> "unset", value |-> NoPort]]

\* the Port object holds a socket attribute (set once bound and listening,
\* deleted when the connection is lost)
HasSocket(p) == port[p].state \in {"listening", "disconnecting"}

\* RegionService.getPort(), run with no other thread interleaved
getPort(p) ==
    IF rs_port[p] = None \/ ~HasSocket(p) THEN NoPort ELSE <<port[p].num>>

\* RegionService.startService(): listen on the endpoint, chain the callbacks
RS_startService(p) ==
    /\ rs_starting[p] = None
    /\ rs_running' = [rs_running EXCEPT ![p] = TRUE]
    /\ rs_starting' = [rs_starting EXCEPT ![p] = "pending"]
    /\ rs_listen' = [rs_listen EXCEPT ![p] = "inflight"]
    /\ UNCHANGED <<rs_result, rs_suppress, rs_port, port, rs_stops, rs_log, gp>>

Suppressed_never(p) == FALSE

\* a cancelled Deferred drops the result that arrives afterwards
Suppressed(p) == rs_suppress[p]

\* the listen succeeds on port n: the Port is open whether or not anyone
\* still waits for it; save_port runs unless the Deferred was cancelled
RS_listenSucceeds(p, n) ==
    /\ rs_listen[p] = "inflight"
    /\ rs_listen' = [rs_listen EXCEPT ![p] = "done"]
    /\ port' = [port EXCEPT ![p] = [state |-> "listening", num |-> n, closes |-> 0]]
    /\ IF Suppressed(p)
       THEN UNCHANGED <<rs_port, rs_starting, rs_result>>
       ELSE /\ rs_port' = [rs_port EXCEPT ![p] = "Port"]
            /\ rs_starting' = [rs_starting EXCEPT ![p] = "called"]
            /\ rs_result' = [rs_result EXCEPT ![p] = "Port"]
    /\ UNCHANGED <<rs_running, rs_suppress, rs_stops, rs_log, gp>>

\* the listen fails (the bind fails): save_port is skipped,
\* ignore_cancellation re-raises what is not a CancelledError, log.err logs
\* it and returns None
RS_listenFails(p) ==
    /\ rs_listen[p] = "inflight"
    /\ rs_listen' = [rs_listen EXCEPT ![p] = "done"]
    /\ IF Suppressed(p)
       THEN UNCHANGED <<rs_starting, rs_result, rs_log>>
       ELSE /\ rs_starting' = [rs_starting EXCEPT ![p] = "called"]
            /\ rs_result' = [rs_result EXCEPT ![p] = None]
            /\ rs_log' = [rs_log EXCEPT ![p] = @ \cup {"BindFailure"}]
    /\ UNCHANGED <<rs_running, rs_suppress, rs_port, port, rs_stops, gp>>

\* RegionService.stopService(): cancel the start, stop the port if one was
\* saved, then up-call.  self._port is never reset, so a later call finds
\* the same Port object again.
RS_stopService(p) ==
    /\ rs_starting[p] # None
    /\ Len(rs_stops[p]) < MaxStops
    \* self.starting.cancel(): CancelledError, trapped by ignore_cancellation
    /\ IF rs_starting[p] = "pending"
       THEN /\ rs_starting' = [rs_starting EXCEPT ![p] = "called"]
            /\ rs_result' = [rs_result EXCEPT ![p] = None]
            /\ rs_suppress' = [rs_suppress EXCEPT ![p] = TRUE]
       ELSE UNCHANGED <<rs_starting, rs_result, rs_suppress>>
    /\ IF rs_port[p] = None
       THEN \* d = defer.succeed(None); stop_service runs at once
            /\ rs_running' = [rs_running EXCEPT ![p] = FALSE]
            /\ rs_stops' = [rs_stops EXCEPT ![p] = Append(@, "fired")]
            /\ UNCHANGED port
       ELSE IF port[p].state = "closed"
       THEN \* stopListening() on a Port no longer connected returns None:
            \* d.addCallback raises AttributeError
            /\ rs_stops' = [rs_stops EXCEPT ![p] = Append(@, "raised")]
            /\ UNCHANGED <<rs_running, port>>
       ELSE \* stopListening(): stop reading, lose the connection later
            /\ port' = [port EXCEPT ![p].state = "disconnecting",
                                    ![p].closes = @ + 1]
            /\ rs_stops' = [rs_stops EXCEPT ![p] = Append(@, "pending")]
            /\ UNCHANGED rs_running
    /\ UNCHANGED <<rs_listen, rs_port, rs_log, gp>>

\* index of the first stopService() call still waiting for its port to close
FirstPending(p) ==
    CHOOSE i \in 1..Len(rs_stops[p]) :
        /\ rs_stops[p][i] = "pending"
        /\ \A j \in 1..(i - 1) : rs_stops[p][j] # "pending"

\* the reactor runs the connectionLost that a stopListening() scheduled: it
\* closes and deletes the socket, and the Deferred of that stopListening()
\* fires, so stop_service up-calls.  A second one finds no socket and fails.
RS_portClosed(p) ==
    /\ port[p].closes > 0
    /\ IF port[p].state = "disconnecting"
       THEN /\ port' = [port EXCEPT ![p].state = "closed", ![p].closes = @ - 1]
            /\ rs_stops' = [rs_stops EXCEPT ![p][FirstPending(p)] = "fired"]
            /\ rs_running' = [rs_running EXCEPT ![p] = FALSE]
       ELSE /\ port' = [port EXCEPT ![p].closes = @ - 1]
            /\ rs_stops' = [rs_stops EXCEPT ![p][FirstPending(p)] = "failed"]
            /\ UNCHANGED rs_running
    /\ UNCHANGED <<rs_starting, rs_result, rs_suppress, rs_listen, rs_port,
                   rs_log, gp>>

\* getPort() in a worker thread, first statement: socket = self._port.socket
\* (AttributeError, hence None, when _port is None or has no socket)
RS_getPortRead(p) ==
    /\ gp[p].pc = "idle"
    /\ IF rs_port[p] = None \/ ~HasSocket(p)
       THEN gp' = [gp EXCEPT ![p] = [pc |-> "idle", status |-> "returned",
                                     value |-> NoPort]]
       ELSE gp' = [gp EXCEPT ![p] = [pc |-> "haveSocket", status |-> "unset",
                                     value |-> NoPort]]
    /\ UNCHANGED <<rs_running, rs_starting, rs_result, rs_suppress, rs_listen,
                   rs_port, port, rs_stops, rs_log>>

\* getPort(), second statement, outside the try: socket.getsockname().  The
\* reactor thread may have closed the socket in between.
RS_getPortName(p) ==
    /\ gp[p].pc = "haveSocket"
    /\ IF HasSocket(p)
       THEN gp' = [gp EXCEPT ![p] = [pc |-> "idle", status |-> "returned",
                                     value |-> <<port[p].num>>]]
       ELSE gp' = [gp EXCEPT ![p] = [pc |-> "idle", status |-> "raised",
                                     value |-> NoPort]]
    /\ UNCHANGED <<rs_running, rs_starting, rs_result, rs_suppress, rs_listen,
                   rs_port, port, rs_stops, rs_log>>

RS_Next(p) ==
    /\ \/ RS_startService(p)
       \/ \E n \in Ports : RS_listenSucceeds(p, n)
       \/ RS_listenFails(p)
       \/ RS_stopService(p)
       \/ RS_portClosed(p)
       \/ RS_getPortRead(p)
       \/ RS_getPortName(p)
    /\ UNCHANGED <<dbVars, rasVars>>

\* ===================================================== the eventloops table

Ops == {"prepare", "update", "dump", "remove"}

\* a row of eventloops; updated defaults to NOW(), the time the inserting
\* transaction began
Row(n, a, pt, t) == [name |-> n, address |-> a, port |-> pt, updated |-> t]

Key(r) == <<r.address, r.port>>

\* SELECT name, address, port: what dump() shows of a row
Tuple(r) == <<r.name, r.address, r.port>>
Tuples(rows) == {Tuple(r) : r \in rows}

NoTxn == [pc |-> "none", now |-> 0, del |-> {}, ins |-> {}, pairs |-> {},
          tl |-> "none", created |-> FALSE, idx |-> FALSE]

\* the first statement of each operation
FirstPc(op) ==
    CASE op = "prepare" -> "create"
      [] op = "update" -> "delete"
      [] op = "remove" -> "delete"
      [] op = "dump" -> "select"

\* the operation whose thread holds the lock of process p
Active(p, op) == thr[p][op] = "active"
Failed(p, op) == thr[p][op] \in {"err", "IntegrityError"}
Ended(p, op) == thr[p][op] = "ok" \/ Failed(p, op)
LockFree_always(p) == TRUE

\* no thread of process p holds RegionAdvertisingService.lock
LockFree(p) == \A op \in Ops : thr[p][op] # "active"

\* rows of the committed table that another open transaction has deleted:
\* a statement that needs one of them waits for that transaction to end
LockedByOthers(p) == UNION {txn[q].del : q \in Procs \ {p}}
InsertedByOthers(p) == UNION {txn[q].ins : q \in Procs \ {p}}

\* what a statement of p's transaction sees: the committed rows, less its own
\* deletions, plus its own insertions
Visible(p) == (table \ txn[p].del) \cup txn[p].ins

\* synchronised(lock) and transaction.atomic(): a thread that was started for
\* op takes the lock of its process and begins a transaction
LockAcquire(p, op) ==
    /\ thr[p][op] = "queued"
    /\ LockFree(p)
    /\ thr' = [thr EXCEPT ![p][op] = "active"]
    /\ txn' = [txn EXCEPT ![p] = [NoTxn EXCEPT !.pc = FirstPc(op), !.now = clock]]
    /\ UNCHANGED <<clock, tableExists, indexExists, table>>
    /\ UNCHANGED <<ras_starting, ras_suppress, ras_running, ras_stop, loop,
                   ras_log, dumped, due>>

Committed_keepsDeleted(p) == table \cup txn[p].ins

\* the table as it is after p's transaction commits
Committed(p) == (table \ txn[p].del) \cup txn[p].ins

\* leaving transaction.atomic() normally commits, then the lock is released
\* and the thread ends with a result for the reactor
Commit(p, op) ==
    /\ Active(p, op)
    /\ txn[p].pc = "commit"
    /\ table' = Committed(p)
    /\ tableExists' = (tableExists \/ txn[p].created)
    /\ indexExists' = (indexExists \/ txn[p].idx)
    /\ txn' = [txn EXCEPT ![p] = NoTxn]
    /\ thr' = [thr EXCEPT ![p][op] = "ok"]
    /\ UNCHANGED clock
    /\ UNCHANGED <<ras_starting, ras_suppress, ras_running, ras_stop, loop,
                   ras_log, dumped, due>>

RolledBack_partial(p) == table \ txn[p].del

\* the table as it is after p's transaction is rolled back
RolledBack(p) == table

\* an exception inside transaction.atomic() rolls the transaction back; the
\* lock is released and the thread ends with the failure e
Rollback(p, op, e) ==
    /\ txn' = [txn EXCEPT ![p] = NoTxn]
    /\ thr' = [thr EXCEPT ![p][op] = IF op = "dump" THEN "idle" ELSE e]
    /\ table' = RolledBack(p)
    /\ UNCHANGED <<clock, tableExists, indexExists>>
    /\ UNCHANGED <<ras_starting, ras_suppress, ras_running, ras_stop, loop,
                   ras_log, dumped, due>>

\* the connection is lost, or the server aborts the transaction to break a
\* deadlock, while a statement of op is outstanding
TxnFails(p, op) ==
    /\ Active(p, op)
    /\ Rollback(p, op, "err")

DeletedByName_none(p) == {}

DeletedByName_all(p) == Visible(p)

\* the rows of DELETE FROM eventloops WHERE name = <this process>
DeletedByName(p) == {r \in Visible(p) : r.name = p}

\* _do_delete (update() goes on to insert, remove() is done)
do_delete(p, op) ==
    /\ op \in {"update", "remove"}
    /\ Active(p, op)
    /\ txn[p].pc = "delete"
    /\ \A q \in Procs \ {p} : txn[q].tl # "excl"
    /\ DeletedByName(p) \cap LockedByOthers(p) = {}
    /\ txn' = [txn EXCEPT ![p].del = @ \cup (DeletedByName(p) \cap table),
                          ![p].ins = @ \ DeletedByName(p),
                          ![p].tl = "rowx",
                          ![p].pc = IF op = "update" THEN "insert" ELSE "commit"]
    /\ UNCHANGED <<clock, tableExists, indexExists, table>>
    /\ UNCHANGED rasVars

\* the RPC service is in eventloop.services once the event-loop started it
HasRpcService(p) == rs_starting[p] # None

\* _get_addresses: every address of the host with the port of the RPC
\* service; nothing without an RPC service or without a port
get_addresses(p, addrs) ==
    IF HasRpcService(p) /\ getPort(p) # NoPort
    THEN {<<a, getPort(p)[1]>> : a \in addrs}
    ELSE {}

\* the rows one INSERT statement of p adds for the given pairs
NewRows(p, pairs) == {Row(p, pr[1], pr[2], txn[p].now) : pr \in pairs}

Collisions_none(p, rows) == {}

\* UNIQUE (address, port), of which UNIQUE (name, address, port) is a
\* consequence: the visible committed rows a new row collides with
Collisions(p, rows) ==
    {r \in Visible(p) : \E n \in rows : Key(n) = Key(r)}

\* CHECK (port > 0 AND port <= 65535)
CheckPort(rows) == \A r \in rows : r.port >= PortMin /\ r.port <= PortMax

\* _do_insert: one INSERT of all the pairs _get_addresses yields now, none
\* when there are no pairs.  A collision with a row another open transaction
\* deleted or inserted waits for that transaction; any other collision is a
\* constraint violation, which aborts the transaction.
do_insert(p, addrs) ==
    /\ Active(p, "update")
    /\ txn[p].pc = "insert"
    /\ LET pairs == get_addresses(p, addrs)
           rows == NewRows(p, pairs)
           hit == Collisions(p, rows)
       IN  IF hit \ LockedByOthers(p) # {} \/ ~CheckPort(rows)
           THEN Rollback(p, "update", "IntegrityError")
           ELSE /\ hit = {}
                /\ \A r \in InsertedByOthers(p) : \A n \in rows : Key(n) # Key(r)
                /\ txn' = [txn EXCEPT ![p].ins = @ \cup rows,
                                      ![p].pairs = pairs,
                                      ![p].pc = "collect"]
                /\ UNCHANGED <<clock, tableExists, indexExists, table>>
                /\ UNCHANGED rasVars

Stale_own(p) == {r \in Visible(p) : r.name = p /\ r.updated < txn[p].now - TTL}

Stale_inclusive(p) == {r \in Visible(p) : r.updated <= txn[p].now - TTL}

\* the rows the collect statement of p's transaction deletes:
\* updated < (NOW() - INTERVAL '5 minutes'), NOW() being the time the
\* transaction began
Stale(p) == {r \in Visible(p) : r.updated < txn[p].now - TTL}

\* _do_collect: DELETE FROM eventloops WHERE updated < NOW() - 5 minutes
do_collect(p) ==
    /\ Active(p, "update")
    /\ txn[p].pc = "collect"
    /\ Stale(p) \cap LockedByOthers(p) = {}
    /\ txn' = [txn EXCEPT ![p].del = @ \cup (Stale(p) \cap table),
                          ![p].ins = @ \ Stale(p),
                          ![p].pc = "commit"]
    /\ UNCHANGED <<clock, tableExists, indexExists, table>>
    /\ UNCHANGED rasVars

Snapshot_dirty(p) ==
    (table \ UNION {txn[q].del : q \in Procs}) \cup UNION {txn[q].ins : q \in Procs}

\* what a SELECT of any transaction sees of the others: committed rows only
Snapshot(p) == Visible(p)

\* dump(): _do_select and list(cursor), then the transaction and the lock
\* end and the caller has the tuples
do_select(p) ==
    /\ Active(p, "dump")
    /\ txn[p].pc = "select"
    /\ dumped' = [dumped EXCEPT ![p] = Tuples(Snapshot(p))]
    /\ txn' = [txn EXCEPT ![p] = NoTxn]
    /\ thr' = [thr EXCEPT ![p]["dump"] = "ok"]
    /\ UNCHANGED <<clock, tableExists, indexExists, table>>
    /\ UNCHANGED <<ras_starting, ras_suppress, ras_running, ras_stop, loop,
                   ras_log, due>>

\* another open transaction has created the table and not yet ended
CreatedByOthers(p) == \E q \in Procs \ {p} : txn[q].created

\* _do_create, first statement: CREATE UNLOGGED TABLE IF NOT EXISTS.  It is
\* a no-op when the table is committed.  When another open transaction has
\* created the table, this one does not see it, goes on to create it and
\* waits on the catalogue entry of the other.
do_create(p) ==
    /\ Active(p, "prepare")
    /\ txn[p].pc = "create"
    /\ IF CreatedByOthers(p)
       THEN txn' = [txn EXCEPT ![p].pc = "createWait"]
       ELSE txn' = [txn EXCEPT ![p].created = ~tableExists, ![p].pc = "index"]
    /\ UNCHANGED <<clock, tableExists, indexExists, table>>
    /\ UNCHANGED rasVars

\* the CREATE TABLE that waited goes on when the other transaction has
\* ended: a duplicate catalogue entry (an IntegrityError) when that one
\* committed, the creation when it rolled back
do_create_waited(p) ==
    /\ Active(p, "prepare")
    /\ txn[p].pc = "createWait"
    /\ ~CreatedByOthers(p)
    /\ IF tableExists
       THEN Rollback(p, "prepare", "IntegrityError")
       ELSE /\ txn' = [txn EXCEPT ![p].created = TRUE, ![p].pc = "index"]
            /\ UNCHANGED <<clock, tableExists, indexExists, table>>
            /\ UNCHANGED rasVars

TableLockFree_always(p) == TRUE

\* LOCK TABLE eventloops IN EXCLUSIVE MODE is granted when no other open
\* transaction holds a lock on the table (writers hold ROW EXCLUSIVE)
TableLockFree(p) == \A q \in Procs \ {p} : txn[q].tl = "none"

\* _do_create, the rest: LOCK TABLE eventloops IN EXCLUSIVE MODE, then the
\* index is created unless pg_indexes lists it
do_create_index(p) ==
    /\ Active(p, "prepare")
    /\ txn[p].pc = "index"
    /\ TableLockFree(p)
    /\ txn' = [txn EXCEPT ![p].tl = "excl", ![p].idx = ~indexExists,
                          ![p].pc = "commit"]
    /\ UNCHANGED <<clock, tableExists, indexExists, table>>
    /\ UNCHANGED rasVars

\* time passes
Tick ==
    /\ clock < MaxTime
    /\ clock' = clock + 1
    /\ UNCHANGED <<tableExists, indexExists, table, txn>>
    /\ UNCHANGED rasVars

DB_Init ==
    /\ clock = 0
    /\ tableExists = FALSE
    /\ indexExists = FALSE
    /\ table = {}
    /\ txn = [p \in Procs |-> NoTxn]

\* the steps of the worker threads of process p
AddrSets == SUBSET Addrs

DB_Next(p) ==
    \/ \E op \in Ops : LockAcquire(p, op)
    \/ \E op \in Ops \ {"dump"} : Commit(p, op)
    \/ \E op \in Ops : TxnFails(p, op)
    \/ \E op \in {"update", "remove"} : do_delete(p, op)
    \/ \E addrs \in AddrSets : do_insert(p, addrs)
    \/ do_collect(p)
    \/ do_select(p)
    \/ do_create(p)
    \/ do_create_waited(p)
    \/ do_create_index(p)

\* ================================================= RegionAdvertisingService

\* the class attributes starting = None and stopping = None; the LoopingCall
\* of a TimerService exists only once the TimerService was started
RAS_Init ==
    /\ ras_starting = [p \in Procs |-> None]
    /\ ras_suppress = [p \in Procs |-> FALSE]
    /\ ras_running = [p \in Procs |-> FALSE]
    /\ ras_stop = [p \in Procs |-> "no"]
    /\ loop = [p \in Procs |-> "absent"]
    /\ thr = [p \in Procs |-> [op \in Ops |-> "idle"]]
    /\ ras_log = [p \in Procs |-> {}]
    /\ dumped = [p \in Procs |-> {}]
    /\ due = [p \in Procs |-> 0]

\* RegionAdvertisingService.startService(): prepare() in a thread
RAS_startService(p) ==
    /\ ras_starting[p] = None
    /\ ras_starting' = [ras_starting EXCEPT ![p] = "pending"]
    /\ thr' = [thr EXCEPT ![p]["prepare"] = "queued"]
    /\ UNCHANGED <<ras_suppress, ras_running, ras_stop, loop, ras_log, dumped, due>>
    /\ UNCHANGED dbVars

StartCancelled_never(p) == FALSE

\* a cancelled Deferred drops the result its thread delivers afterwards
StartCancelled(p) == ras_suppress[p]

Prepared_whatever(p) == TRUE

\* the starting Deferred got a result, not a Failure, from the prepare()
\* thread: the callback is run, not the errbacks
Prepared(p) == thr[p]["prepare"] = "ok"

\* the reactor gets the result of the prepare() thread.  On success the
\* callback up-calls TimerService.startService(), which starts the
\* LoopingCall with now=True: the first update() is called at once.  A
\* failure passes ignore_cancellation and is logged.
RAS_prepared(p) ==
    /\ Ended(p, "prepare")
    /\ IF StartCancelled(p)
       THEN /\ thr' = [thr EXCEPT ![p]["prepare"] = "idle"]
            /\ UNCHANGED <<ras_starting, ras_running, loop, ras_log>>
       ELSE IF Prepared(p)
       THEN /\ thr' = [thr EXCEPT ![p]["prepare"] = "idle",
                                  ![p]["update"] = "queued"]
            /\ ras_starting' = [ras_starting EXCEPT ![p] = "called"]
            /\ ras_running' = [ras_running EXCEPT ![p] = TRUE]
            /\ loop' = [loop EXCEPT ![p] = "running"]
            /\ UNCHANGED ras_log
       ELSE /\ thr' = [thr EXCEPT ![p]["prepare"] = "idle"]
            /\ ras_starting' = [ras_starting EXCEPT ![p] = "called"]
            /\ ras_log' = [ras_log EXCEPT ![p] = @ \cup {"prepare"}]
            /\ UNCHANGED <<ras_running, loop>>
    /\ UNCHANGED <<ras_suppress, ras_stop, dumped, due>>
    /\ UNCHANGED dbVars

LoopRunning_unstarted(p) == loop[p] \in {"absent", "running"}

\* the LoopingCall exists and runs: TimerService.startService() started it
\* and nothing has stopped it
LoopRunning(p) == loop[p] = "running"

\* the LoopingCall made by __init__(interval, deferToThread, self.update)
\* calls update() in a thread when the previous call has ended
Call(p) ==
    /\ LoopRunning(p)
    /\ thr[p]["update"] = "idle"
    /\ thr' = [thr EXCEPT ![p]["update"] = "queued"]
    /\ UNCHANGED <<ras_starting, ras_suppress, ras_running, ras_stop, loop,
                   ras_log, dumped>>
    /\ UNCHANGED dbVars

\* a tick of the timer, whenever it comes
RAS_tick(p) == Call(p) /\ UNCHANGED due

\* a tick of the timer on the clock: not before the time the call is
\* scheduled for, and the next call is scheduled one interval later
RAS_tickOnTime(p) ==
    /\ clock >= due[p]
    /\ Call(p)
    /\ due' = [due EXCEPT ![p] = clock + Interval]

\* the reactor gets the result of an update() thread.  After a success the
\* LoopingCall goes on, or, when it was stopped meanwhile, ends and lets the
\* pending stop finish.  After a failure the LoopingCall ends for good and
\* TimerService logs the failure.
RAS_updated(p) ==
    /\ Ended(p, "update")
    /\ thr' = [thr EXCEPT ![p]["update"] = "idle"]
    /\ IF Failed(p, "update")
       THEN ras_log' = [ras_log EXCEPT ![p] = @ \cup {"update"}]
       ELSE UNCHANGED ras_log
    /\ IF loop[p] = "stopped"
       THEN /\ ras_running' = [ras_running EXCEPT ![p] = FALSE]
            /\ ras_stop' = [ras_stop EXCEPT ![p] = "fired"]
            /\ loop' = [loop EXCEPT ![p] = "ended"]
       ELSE /\ loop' = [loop EXCEPT ![p] =
                           IF Failed(p, "update") THEN "failed" ELSE @]
            /\ UNCHANGED <<ras_running, ras_stop>>
    /\ UNCHANGED <<ras_starting, ras_suppress, dumped, due>>
    /\ UNCHANGED dbVars

\* RegionAdvertisingService.stopService(): remove() in a thread when the
\* start-up has ended, else the start-up is cancelled
RAS_stopService(p) ==
    /\ ras_starting[p] # None
    /\ ras_stop[p] = "no"
    /\ IF ras_starting[p] = "called"
       THEN /\ thr' = [thr EXCEPT ![p]["remove"] = "queued"]
            /\ ras_stop' = [ras_stop EXCEPT ![p] = "pending"]
            /\ UNCHANGED <<ras_starting, ras_suppress>>
       ELSE /\ ras_starting' = [ras_starting EXCEPT ![p] = "called"]
            /\ ras_suppress' = [ras_suppress EXCEPT ![p] = TRUE]
            /\ ras_stop' = [ras_stop EXCEPT ![p] = "cancelled"]
            /\ UNCHANGED thr
    /\ UNCHANGED <<ras_running, loop, ras_log, dumped, due>>
    /\ UNCHANGED dbVars

\* the reactor gets the result of the remove() thread: the callback up-calls
\* TimerService.stopService(), which stops the LoopingCall and finishes when
\* no update() call is outstanding.  Without a LoopingCall (the TimerService
\* never started) the up-call raises; a failed remove() skips the up-call.
RAS_removed(p) ==
    /\ Ended(p, "remove")
    /\ thr' = [thr EXCEPT ![p]["remove"] = "idle"]
    /\ IF Failed(p, "remove") \/ loop[p] = "absent"
       THEN /\ ras_stop' = [ras_stop EXCEPT ![p] = "failed"]
            /\ UNCHANGED <<ras_running, loop>>
       ELSE IF loop[p] = "running" /\ thr[p]["update"] # "idle"
       THEN /\ loop' = [loop EXCEPT ![p] = "stopped"]
            /\ UNCHANGED <<ras_running, ras_stop>>
       ELSE /\ loop' = [loop EXCEPT ![p] = "ended"]
            /\ ras_running' = [ras_running EXCEPT ![p] = FALSE]
            /\ ras_stop' = [ras_stop EXCEPT ![p] = "fired"]
    /\ UNCHANGED <<ras_starting, ras_suppress, ras_log, dumped, due>>
    /\ UNCHANGED dbVars

\* some thread of the process calls dump()
RAS_dump(p) ==
    /\ tableExists
    /\ thr[p]["dump"] = "idle"
    /\ thr' = [thr EXCEPT ![p]["dump"] = "queued"]
    /\ UNCHANGED <<ras_starting, ras_suppress, ras_running, ras_stop, loop,
                   ras_log, dumped, due>>
    /\ UNCHANGED dbVars

\* the caller of dump() has the list
RAS_dumped(p) ==
    /\ thr[p]["dump"] = "ok"
    /\ thr' = [thr EXCEPT ![p]["dump"] = "idle"]
    /\ dumped' = [dumped EXCEPT ![p] = {}]
    /\ UNCHANGED <<ras_starting, ras_suppress, ras_running, ras_stop, loop,
                   ras_log, due>>
    /\ UNCHANGED dbVars

RAS_Next(p) ==
    \/ RAS_startService(p)
    \/ RAS_prepared(p)
    \/ RAS_tick(p)
    \/ RAS_updated(p)
    \/ RAS_stopService(p)
    \/ RAS_removed(p)
    \/ RAS_dump(p)
    \/ RAS_dumped(p)

\* ----------------------------------------------------------- specifications

Init == RS_Init /\ DB_Init /\ RAS_Init

\* the RegionService alone, with a thread calling getPort()
InitRpc == Init
NextRpc == \E p \in Procs : RS_Next(p)
SpecRpc == InitRpc /\ [][NextRpc]_vars

\* the processes of a region: each starts its RPC service and its advertising
\* service, advertises on every tick and stops
Next ==
    \/ \E p \in Procs :
          /\ \/ RS_startService(p)
             \/ \E n \in Ports : RS_listenSucceeds(p, n)
             \/ RS_stopService(p)
             \/ RS_portClosed(p)
          /\ UNCHANGED <<dbVars, rasVars>>
    \/ \E p \in Procs : RAS_Next(p) /\ UNCHANGED rsVars
    \/ \E p \in Procs : DB_Next(p) /\ UNCHANGED rsVars
    \/ Tick /\ UNCHANGED rsVars
Spec == Init /\ [][Next]_vars

\* RegionServices as RS_Init leaves them (not started) for the processes in
\* fresh, and started and listening on some port for the others
RS_InitWith(fresh) ==
    /\ port \in [Procs -> [state : {"unopened", "listening"},
                           num : Ports \cup {0}, closes : {0}]]
    /\ \A p \in Procs :
          IF p \in fresh THEN port[p] = [state |-> "unopened", num |-> 0, closes |-> 0]
          ELSE port[p].state = "listening" /\ port[p].num \in Ports
    /\ rs_running = [p \in Procs |-> p \notin fresh]
    /\ rs_starting = [p \in Procs |-> IF p \in fresh THEN None ELSE "called"]
    /\ rs_result = [p \in Procs |-> IF p \in fresh THEN "unset" ELSE "Port"]
    /\ rs_suppress = [p \in Procs |-> FALSE]
    /\ rs_listen = [p \in Procs |-> IF p \in fresh THEN "idle" ELSE "done"]
    /\ rs_port = [p \in Procs |-> IF p \in fresh THEN None ELSE "Port"]
    /\ rs_stops = [p \in Procs |-> <<>>]
    /\ rs_log = [p \in Procs |-> {}]
    /\ gp = [p \in Procs |-> [pc |-> "idle", status |-> "unset", value |-> NoPort]]

\* RegionAdvertisingServices as RAS_Init leaves them for the processes in
\* fresh; for the others prepare() has succeeded and the TimerService runs,
\* with their first update() due (first) or between two ticks
RAS_InitWith(fresh, first) ==
    /\ ras_starting = [p \in Procs |-> IF p \in fresh THEN None ELSE "called"]
    /\ ras_suppress = [p \in Procs |-> FALSE]
    /\ ras_running = [p \in Procs |-> p \notin fresh]
    /\ ras_stop = [p \in Procs |-> "no"]
    /\ loop = [p \in Procs |-> IF p \in fresh THEN "absent" ELSE "running"]
    /\ thr = [p \in Procs |-> [op \in Ops |->
                 IF op = "update" /\ p \notin fresh /\ first
                 THEN "queued" ELSE "idle"]]
    /\ ras_log = [p \in Procs |-> {}]
    /\ dumped = [p \in Procs |-> {}]
    /\ due = [p \in Procs |-> 0]

\* -- the registry with every process advertising: all have prepared the
\* table and started, the first update() of each is due
InitReg ==
    /\ RS_InitWith({})
    /\ RAS_InitWith({}, TRUE)
    /\ clock = 0 /\ tableExists = TRUE /\ indexExists = TRUE
    /\ table = {} /\ txn = [p \in Procs |-> NoTxn]

\* the steps of update() on a host that has the addresses addrs
DB_Update(p, addrs) ==
    \/ LockAcquire(p, "update")
    \/ do_delete(p, "update")
    \/ do_insert(p, addrs)
    \/ do_collect(p)
    \/ Commit(p, "update")
    \/ TxnFails(p, "update")

\* the steps of dump()
DB_Dump(p) ==
    \/ LockAcquire(p, "dump")
    \/ do_select(p)
    \/ TxnFails(p, "dump")

\* every process ticks and updates while time passes; the hosts have the
\* address a1 or none
OneAddr == {"a1"}

NextReg ==
    \/ \E p \in Procs :
          /\ \/ RAS_tick(p)
             \/ RAS_updated(p)
             \/ \E addrs \in SUBSET OneAddr : DB_Update(p, addrs)
          /\ UNCHANGED rsVars
    \/ Tick /\ UNCHANGED rsVars
SpecReg == InitReg /\ [][NextReg]_vars

Peer == "r2"
Self == "r1"

\* -- one process, r1, ticks and updates while threads of r1 and of its peer
\* r2 dump
InitDump ==
    /\ RS_InitWith({})
    /\ RAS_InitWith({}, FALSE)
    /\ clock = 0 /\ tableExists = TRUE /\ indexExists = TRUE
    /\ table = {} /\ txn = [p \in Procs |-> NoTxn]

NextDump ==
    \/ /\ \/ RAS_tick(Self)
          \/ RAS_updated(Self)
          \/ \E addrs \in AddrSets : DB_Update(Self, addrs)
       /\ UNCHANGED rsVars
    \/ \E p \in Procs :
          /\ \/ RAS_dump(p)
             \/ RAS_dumped(p)
             \/ DB_Dump(p)
          /\ UNCHANGED rsVars
SpecDump == InitDump /\ [][NextDump]_vars

\* -- the whole life of the services of one process, r1, beside the rows
\* that a peer, r2, advertised before it went silent

InitAdv ==
    /\ RS_InitWith({Self})
    /\ RAS_InitWith({Self}, FALSE)
    /\ clock = 0 /\ tableExists = TRUE /\ indexExists = TRUE
    /\ \E addrs \in AddrSets :
          table = {Row(Peer, a, port[Peer].num, 0) : a \in addrs}
    /\ txn = [p \in Procs |-> NoTxn]

NextAdv ==
    \/ /\ \/ RS_startService(Self)
          \/ \E n \in Ports : RS_listenSucceeds(Self, n)
          \/ RS_listenFails(Self)
          \/ RS_stopService(Self)
          \/ RS_portClosed(Self)
       /\ UNCHANGED <<dbVars, rasVars>>
    \/ /\ \/ RAS_startService(Self)
          \/ RAS_prepared(Self)
          \/ RAS_tick(Self)
          \/ RAS_updated(Self)
          \/ RAS_stopService(Self)
          \/ RAS_removed(Self)
       /\ UNCHANGED rsVars
    \/ /\ \/ \E op \in Ops \ {"dump"} : LockAcquire(Self, op)
          \/ \E op \in Ops \ {"dump"} : Commit(Self, op)
          \/ \E op \in Ops \ {"dump"} : TxnFails(Self, op)
          \/ \E op \in {"update", "remove"} : do_delete(Self, op)
          \/ \E addrs \in AddrSets : do_insert(Self, addrs)
          \/ do_collect(Self)
          \/ do_create(Self)
          \/ do_create_index(Self)
       /\ UNCHANGED rsVars
SpecAdv == InitAdv /\ [][NextAdv]_vars

\* -- every process starts its advertising service, advertises and stops.
\* The database has no eventloops table yet, or a table without the index
\* (which is why _do_create looks for the index), or both.
InitPrep ==
    /\ RS_InitWith({})
    /\ RAS_Init
    /\ clock = 0 /\ table = {} /\ txn = [p \in Procs |-> NoTxn]
    /\ tableExists \in BOOLEAN /\ indexExists \in BOOLEAN
    /\ indexExists => tableExists

NextPrep ==
    \E p \in Procs :
       /\ \/ RAS_startService(p)
          \/ RAS_prepared(p)
          \/ RAS_tick(p)
          \/ RAS_updated(p)
          \/ RAS_stopService(p)
          \/ RAS_removed(p)
          \/ \E op \in Ops \ {"dump"} : LockAcquire(p, op)
          \/ \E op \in Ops \ {"dump"} : Commit(p, op)
          \/ \E op \in Ops \ {"dump"} : TxnFails(p, op)
          \/ do_create(p)
          \/ do_create_waited(p)
          \/ do_create_index(p)
          \/ \E op \in {"update", "remove"} : do_delete(p, op)
          \/ \E addrs \in SUBSET OneAddr : do_insert(p, addrs)
          \/ do_collect(p)
       /\ UNCHANGED rsVars
SpecPrep == InitPrep /\ [][NextPrep]_vars

\* -- r2 has crashed after it advertised: its rows stay behind and it takes
\* no step, while r1 goes on ticking and time passes.  The timer fires, the
\* threads run and the clock advances (weak fairness); whether a transaction
\* fails is up to the environment.
InitGC ==
    /\ RS_InitWith({})
    /\ RAS_InitWith({}, TRUE)
    /\ clock = 0 /\ tableExists = TRUE /\ indexExists = TRUE
    /\ \E addrs \in AddrSets \ {{}} :
          table = {Row(Peer, a, port[Peer].num, 0) : a \in addrs}
    /\ txn = [p \in Procs |-> NoTxn]

UpdateProgress(p) ==
    /\ \/ RAS_tick(p)
       \/ RAS_updated(p)
       \/ LockAcquire(p, "update")
       \/ do_delete(p, "update")
       \/ \E addrs \in AddrSets : do_insert(p, addrs)
       \/ do_collect(p)
       \/ Commit(p, "update")
    /\ UNCHANGED rsVars

TimePasses == Tick /\ UNCHANGED rsVars

NextGC ==
    \/ UpdateProgress(Self)
    \/ TxnFails(Self, "update") /\ UNCHANGED rsVars
    \/ TimePasses
SpecGC ==
    /\ InitGC /\ [][NextGC]_vars
    /\ WF_vars(UpdateProgress(Self))
    /\ WF_vars(TimePasses)

\* -- every operation of one process, r1, while time passes: r1 starts its
\* advertising service, ticks, is asked for dumps and stops, beside the rows
\* that its peer r2 left behind (or in a database without the table)
InitOps ==
    /\ RS_InitWith({})
    /\ port[Self].num = 4321
    /\ RAS_InitWith({Self}, FALSE)
    /\ clock = 0
    /\ tableExists \in BOOLEAN
    /\ indexExists = tableExists
    /\ \E addrs \in AddrSets :
          table = {Row(Peer, a, port[Peer].num, 0) : a \in addrs}
    /\ tableExists \/ table = {}
    /\ txn = [p \in Procs |-> NoTxn]

NextOps ==
    \/ /\ \/ RAS_startService(Self)
          \/ RAS_prepared(Self)
          \/ RAS_tick(Self)
          \/ RAS_updated(Self)
          \/ RAS_stopService(Self)
          \/ RAS_removed(Self)
          \/ RAS_dump(Self)
          \/ RAS_dumped(Self)
          \/ \E op \in Ops : LockAcquire(Self, op)
          \/ \E op \in Ops \ {"dump"} : Commit(Self, op)
          \/ \E op \in Ops : TxnFails(Self, op)
          \/ do_create(Self)
          \/ do_create_index(Self)
          \/ \E op \in {"update", "remove"} : do_delete(Self, op)
          \/ \E addrs \in AddrSets : do_insert(Self, addrs)
          \/ do_collect(Self)
          \/ do_select(Self)
       /\ UNCHANGED rsVars
    \/ TimePasses
SpecOps == InitOps /\ [][NextOps]_vars

\* -- the registry on the clock: every process calls update() once per
\* interval and may miss one cycle (an update() that runs long, a reactor
\* that is late), but not the cycle after it
OnTime(p) == LoopRunning(p) => clock + 1 <= due[p] + Interval

TimePassesOnTime == TimePasses /\ \A p \in Procs : OnTime(p)

InitTimed == InitReg

NextTimed ==
    \/ \E p \in Procs :
          /\ \/ RAS_tickOnTime(p)
             \/ RAS_updated(p)
             \/ \E addrs \in SUBSET OneAddr : DB_Update(p, addrs)
          /\ UNCHANGED rsVars
    \/ TimePassesOnTime
SpecTimed == InitTimed /\ [][NextTimed]_vars

\* -- r2 has crashed after it advertised and r1, whose host has every
\* address, goes on ticking while time passes.  The database connection
\* holds: an update() fails only by what its own statements do.  The timer
\* fires, the threads run and the clock advances (weak fairness).
InitStale == InitGC

UpdateAllAddrs(p) ==
    /\ \/ RAS_tick(p)
       \/ RAS_updated(p)
       \/ LockAcquire(p, "update")
       \/ do_delete(p, "update")
       \/ do_insert(p, Addrs)
       \/ do_collect(p)
       \/ Commit(p, "update")
    /\ UNCHANGED rsVars

NextStale ==
    \/ UpdateAllAddrs(Self)
    \/ TimePasses
SpecStale ==
    /\ InitStale /\ [][NextStale]_vars
    /\ WF_vars(UpdateAllAddrs(Self))
    /\ WF_vars(TimePasses)

\* =================================================================== claims

\* the committed rows that carry the name n
Named(rows, n) == {r \in rows : r.name = n}

\* the tuples that name n advertises with the pairs of one cycle
Advertised(n, pairs) == {<<n, pr[1], pr[2]>> : pr \in pairs}

UpdateCommits(p) == Active(p, "update") /\ thr'[p]["update"] = "ok"

\* ---- C1
C1_Unique == \A r1 \in table : \A r2 \in table : Key(r1) = Key(r2) => r1 = r2

C1_FailedInsertKeepsRows ==
    \A p \in Procs :
        Active(p, "update") /\ thr'[p]["update"] = "IntegrityError"
            => table' = table

\* C1: in every reachable state no two rows of eventloops share (address,
\* port), and an insert that collides with a row held under another name
\* fails with a constraint violation that leaves the table as it was.
C1_UniqueAddressPort == []C1_Unique /\ [][C1_FailedInsertKeepsRows]_vars

C1_Witness ==
    \E p \in Procs : \E r \in table :
        /\ thr[p]["update"] = "IntegrityError"
        /\ r.name # p
        /\ Key(r) = <<"a1", port[p].num>>

\* ---- C2
DumpReturns(d) == Active(d, "dump") /\ thr'[d]["dump"] = "ok"

\* update() of n has deleted the rows of n and not yet committed
MidUpdate(n) ==
    Active(n, "update") /\ txn[n].pc \in {"insert", "collect", "commit"}

\* the tuples of n before the update in flight, and those after it
Before(n) == Tuples(Named(txn[n].del, n))
After(n) == Tuples(txn[n].ins)

\* C2: a dump() that returns while an update() of name n is between its
\* delete and its commit shows for n the complete rows from before that
\* update or the complete rows after it, never the emptied table nor a mix.
C2_DumpSeesWholeCycle ==
    [][\A d \in Procs : DumpReturns(d) =>
          \A n \in Procs : MidUpdate(n) =>
             LET seen == {t \in dumped'[d] : t[1] = n}
             IN  \/ seen = Before(n)
                 \/ txn[n].pc # "insert" /\ seen = After(n)]_vars

C2_Witness ==
    \E d \in Procs : \E n \in Procs :
        /\ thr[d]["dump"] = "ok"
        /\ d # n
        /\ MidUpdate(n) /\ txn[n].pc = "commit"
        /\ Before(n) # {} /\ After(n) # {} /\ After(n) # Before(n)
        /\ {t \in dumped[d] : t[1] = n} = Before(n)

\* ---- C3
InsertSucceeds(p) ==
    Active(p, "update") /\ txn[p].pc = "insert" /\ txn'[p].pc = "collect"

\* C3: when an update() of process p commits, the rows named p are exactly
\* (p, a, port) for the addresses a and the RPC port read in that cycle; the
\* pairs are empty when there is no RPC service or no bound port, and then
\* the update only deletes the rows of p.
C3_UpdateReplacesOwnRows ==
    [][\A p \in Procs :
          /\ InsertSucceeds(p) =>
                IF HasRpcService(p) /\ getPort(p) # NoPort
                THEN \E addrs \in AddrSets :
                        txn'[p].pairs = {<<a, port[p].num>> : a \in addrs}
                ELSE txn'[p].pairs = {}
          /\ UpdateCommits(p) =>
                /\ Tuples(Named(table', p)) = Advertised(p, txn[p].pairs)
                /\ \A r \in Named(table', p) : r.updated = txn[p].now]_vars

C3_Witness ==
    /\ thr[Self]["update"] = "ok"
    /\ port[Self].state = "closed"
    /\ Named(table, Self) = {}
    /\ Named(table, Peer) # {}

\* ---- C4
\* C4: an update() that runs with the pairs its previous cycle advertised
\* (the rows of its name are exactly those pairs when it starts) leaves the
\* same rows of that name: as many, with the same name, address and port.
C4_UpdateIdempotent ==
    [][\A p \in Procs : UpdateCommits(p) =>
          LET pre == Named(txn[p].del, p)
              post == Named(table', p)
          IN  Tuples(pre) = Advertised(p, txn[p].pairs)
                 => /\ Tuples(post) = Tuples(pre)
                    /\ Cardinality(post) = Cardinality(pre)]_vars

C4_Witness ==
    \E p \in Procs :
        /\ Active(p, "update") /\ txn[p].pc = "commit"
        /\ txn[p].pairs # {}
        /\ Tuples(Named(txn[p].del, p)) = Advertised(p, txn[p].pairs)
        /\ \E r \in Named(txn[p].del, p) : r.updated < txn[p].now

\* ---- C5
CollectRuns(p) ==
    Active(p, "update") /\ txn[p].pc = "collect" /\ txn'[p].pc = "commit"

\* C5: the collect statement of update() deletes exactly the rows it sees
\* that were updated more than 5 minutes before NOW(), whatever their name,
\* and keeps every other row; the commit of the update() removes every row
\* the statement deleted and no row of another name that was updated within
\* the 5 minutes before NOW().
C5_CollectDeletesStale ==
    [][\A p \in Procs :
          /\ CollectRuns(p) =>
                /\ \A r \in Visible(p) :
                      (r \notin Visible(p)') <=> (txn[p].now - r.updated > 5)
                /\ Visible(p)' \subseteq Visible(p)
          /\ UpdateCommits(p) =>
                /\ \A r \in txn[p].del : r \notin table' \/ r \in txn[p].ins
                /\ \A r \in table :
                      (r.name # p /\ r \notin table')
                         => txn[p].now - r.updated > 5]_vars

C5_Witness ==
    \E p \in Procs :
        /\ Active(p, "update") /\ txn[p].pc = "commit"
        /\ \E r \in txn[p].del : r.name # p /\ txn[p].now - r.updated = 6
        /\ txn[p].ins # {}

C5_WitnessKept ==
    \E p \in Procs : \E r \in table :
        /\ Active(p, "update") /\ txn[p].pc = "commit"
        /\ r.name # p /\ txn[p].now - r.updated = 5 /\ r \notin txn[p].del

\* ---- C6
\* C6: once the Deferred that stopService() returned for a running
\* RegionAdvertisingService has fired, the registry holds no row of that
\* process, and none is written afterwards.
C6_StoppedLeavesNoRows ==
    \A p \in Procs :
       ras_stop[p] = "fired" =>
          /\ Named(table, p) = {}
          /\ thr[p]["update"] = "idle"

\* ---- C7
\* C7: getPort() never raises; it returns a port in 1..65535 only while the
\* listener holds its bound socket, and None before startService(), while
\* the listen is in flight and after the start was cancelled or failed.
C7_GetPortNeverRaises ==
    \A p \in Procs :
       /\ gp[p].status # "raised"
       /\ gp[p].value # NoPort =>
             gp[p].value[1] >= PortMin /\ gp[p].value[1] <= PortMax
       /\ getPort(p) # NoPort =>
             /\ rs_result[p] = "Port"
             /\ getPort(p)[1] >= PortMin /\ getPort(p)[1] <= PortMax
       /\ (rs_starting[p] \in {None, "pending"} \/ rs_result[p] = None)
             => getPort(p) = NoPort

\* ---- C8
\* C8: when stopService() is called while the listen is in flight, the
\* listen is cancelled: no port is ever recorded (getPort() returns None),
\* nothing is logged, the starting Deferred ends with None and every
\* stopService() call completes.
C8_StopCancelsPendingListen ==
    \A p \in Procs :
       rs_suppress[p] =>
          /\ rs_port[p] = None
          /\ getPort(p) = NoPort
          /\ gp[p].value = NoPort /\ gp[p].status # "raised"
          /\ rs_log[p] = {}
          /\ rs_starting[p] = "called" /\ rs_result[p] = None
          /\ ~rs_running[p]
          /\ \A i \in 1..Len(rs_stops[p]) : rs_stops[p][i] = "fired"

C8_Witness ==
    \E p \in Procs :
       /\ rs_suppress[p]
       /\ rs_listen[p] = "done" /\ port[p].state = "listening"
       /\ gp[p].status = "returned"
       /\ Len(rs_stops[p]) = 1

\* ---- C9
\* C9: a stopService() that is called after an earlier stopService() of the
\* same RegionService completes without raising and without failing.
C9_StopIsIdempotent ==
    \A p \in Procs : \A i \in 2..Len(rs_stops[p]) :
       rs_stops[p][i] \notin {"raised", "failed"}

\* ---- C10
\* C10: when stopService() is called while prepare() is in flight, the start
\* is cancelled: the LoopingCall is never started, no update() or remove()
\* thread ever runs, no row of the process is written, and nothing is logged
\* or returned as an error.
C10_StopCancelsPendingPrepare ==
    \A p \in Procs :
       ras_stop[p] = "cancelled" =>
          /\ loop[p] = "absent" /\ ~ras_running[p]
          /\ thr[p]["update"] = "idle" /\ thr[p]["remove"] = "idle"
          /\ Named(table, p) = {} /\ txn[p].ins = {} /\ txn[p].del = {}
          /\ ras_log[p] = {}
          /\ ras_starting[p] = "called"

C10_Witness ==
    /\ ras_stop[Self] = "cancelled"
    /\ thr[Self]["prepare"] = "idle"
    /\ getPort(Self) # NoPort

\* ---- C11
C11_StartedAfterPrepare ==
    \A p \in Procs :
       (loop[p] # "absent" \/ thr[p]["update"] # "idle")
          => /\ tableExists /\ indexExists
             /\ ras_starting[p] = "called"
             /\ ~ras_suppress[p]
             /\ "prepare" \notin ras_log[p]
             /\ thr[p]["prepare"] = "idle"

C11_TimerStartsOnSuccess ==
    \A p \in Procs :
       /\ (loop[p] = "absent" /\ loop'[p] # "absent")
             => thr[p]["prepare"] = "ok" /\ thr'[p]["update"] = "queued"
       /\ (thr[p]["update"] = "idle" /\ thr'[p]["update"] # "idle")
             => thr[p]["prepare"] = "ok" \/ loop[p] = "running"

\* C11: no update() of a process is started, and its LoopingCall does not
\* exist, before the prepare() of that process has returned successfully
\* (the table and the index are committed); the LoopingCall is started only
\* by the callback that runs on the result of prepare().
C11_UpdateAfterPrepare ==
    []C11_StartedAfterPrepare /\ [][C11_TimerStartsOnSuccess]_vars

C11_Witness ==
    \E p \in Procs : \E q \in Procs \ {p} :
       /\ Active(p, "update") /\ txn[p].pc = "insert"
       /\ Active(q, "prepare")
       /\ ras_starting[q] = "pending"

\* ---- C12
\* C12: when the reactor gets a failure from an update() thread while the
\* LoopingCall runs, the failure is logged and the LoopingCall keeps
\* running, so that the next tick calls update() again.
C12_TickFailureIsolated ==
    [][\A p \in Procs :
          (Failed(p, "update") /\ thr'[p]["update"] = "idle"
              /\ loop[p] = "running")
             => /\ "update" \in ras_log'[p]
                /\ loop'[p] = "running"]_vars

\* ---- C13
C13_NotBeforeStale ==
    \A r \in Named(table, Peer) :
       r \notin table' => clock - r.updated > TTL

\* C13: the rows of a process that crashed are deleted eventually when
\* another process keeps committing update() transactions, and a row of the
\* crashed process leaves the table only when its updated timestamp is more
\* than 5 minutes old.
C13_CrashedRowsCollected ==
    /\ ([]<><<UpdateCommits(Self)>>_vars) => <>(Named(table, Peer) = {})
    /\ [][C13_NotBeforeStale]_vars

C13_Witness ==
    /\ Named(table, Peer) = {}
    /\ Named(table, Self) # {}
    /\ thr[Self]["update"] = "ok"
    /\ loop[Self] = "running"

\* ---- C14
C14_FailedStartStaysStopped ==
    \A p \in Procs :
       "prepare" \in ras_log[p]
          => /\ loop[p] = "absent" /\ ~ras_running[p]
             /\ thr[p]["update"] = "idle"
             /\ Named(table, p) = {}
             /\ ras_starting[p] = "called"

C14_FailureIsLogged ==
    \A p \in Procs :
       (Failed(p, "prepare") /\ ~ras_suppress[p] /\ thr'[p]["prepare"] = "idle")
          => "prepare" \in ras_log'[p] /\ loop'[p] = "absent"

\* C14: when the prepare() of startService() fails and the start was not
\* cancelled, the failure is logged, the LoopingCall is never started, no
\* update() of the service ever runs and the service is not running.
C14_PrepareFailureStops ==
    []C14_FailedStartStaysStopped /\ [][C14_FailureIsLogged]_vars

C14_Witness ==
    \E p \in Procs : \E q \in Procs \ {p} :
       /\ "prepare" \in ras_log[p]
       /\ thr[p]["prepare"] = "idle"
       /\ ras_stop[p] = "failed"
       /\ Named(table, q) # {}

\* ---- C15
\* C15: once the listen of startService() has failed (the bind failed), the
\* failure is in the log, no port is recorded, getPort() returns None, the
\* starting Deferred holds a Failure for whoever observes it, and no further
\* listen is in flight.
C15_BindFailureReported ==
    \A p \in Procs :
       "BindFailure" \in rs_log[p]
          => /\ rs_port[p] = None
             /\ getPort(p) = NoPort
             /\ rs_listen[p] = "done"
             /\ rs_starting[p] = "called"
             /\ rs_result[p] = "Failure"

\* ---- C16
C16_FailureChangesNothing ==
    \A p \in Procs : \A op \in {"prepare", "update", "remove"} :
       (Active(p, op) /\ Failed(p, op)')
          => /\ table' = table
             /\ tableExists' = tableExists /\ indexExists' = indexExists

C16_ChangesOnlyAtCommit ==
    (table' # table \/ tableExists' # tableExists \/ indexExists' # indexExists)
       => \E p \in Procs : \E op \in {"prepare", "update", "remove"} :
             /\ Active(p, op) /\ txn[p].pc = "commit"
             /\ thr'[p][op] = "ok"
             /\ table' = (table \ txn[p].del) \cup txn[p].ins

\* C16: prepare(), update() and remove() each change the committed registry
\* in one step, the commit of their transaction, or not at all: an operation
\* that fails at any statement leaves the table, with the rows of the
\* failing process and the stale rows, as it was.
C16_OperationsAreAtomic ==
    [][C16_FailureChangesNothing /\ C16_ChangesOnlyAtCommit]_vars

C16_Witness ==
    /\ thr[Self]["update"] = "IntegrityError"
    /\ Named(table, Self) # {}
    /\ \E r \in Named(table, Peer) : clock - r.updated > TTL

\* ---- C17
\* the operations of p whose thread is inside the database section
Inside(p) == {op \in Ops : thr[p][op] = "active"}

C17_OneInside ==
    \A p \in Procs :
       /\ Cardinality(Inside(p)) <= 1
       /\ (txn[p].pc # "none") <=> (Inside(p) # {})

C17_ReleasedOnExit ==
    \A p \in Procs : \A op \in Ops :
       (Active(p, op) /\ ~Active(p, op)')
          => /\ Inside(p)' = {}
             /\ LockFree(p)'

\* C17: in one process at most one thread at a time is inside the database
\* section of prepare(), update(), dump() or remove(); the lock is free as
\* soon as the operation inside returns or raises, so that a waiting
\* operation can take it.
C17_LockExcludesAndIsReleased ==
    []C17_OneInside /\ [][C17_ReleasedOnExit]_vars

C17_Witness ==
    /\ Failed(Self, "update")
    /\ Active(Self, "remove")
    /\ thr[Self]["dump"] = "queued"

\* ---- C18
C18_OneCreator ==
    \A p \in Procs :
       txn[p].idx
          => /\ ~indexExists
             /\ txn[p].tl = "excl"
             /\ \A q \in Procs \ {p} : ~txn[q].idx /\ txn[q].tl = "none"

C18_PrepareStep ==
    \A p \in Procs :
       /\ (Active(p, "prepare") /\ thr'[p]["prepare"] = "IntegrityError")
             => txn[p].pc = "createWait" /\ ~txn[p].idx
       /\ (Active(p, "prepare") /\ thr'[p]["prepare"] = "ok")
             => /\ indexExists' /\ tableExists' /\ table' = table
                /\ txn[p].idx = ~indexExists
                /\ txn[p].created = ~tableExists

\* C18: with prepare() running in several processes at once, at most one
\* open transaction has created the index, it holds the exclusive table
\* lock, and the index does not exist yet; no prepare() fails at the index
\* statement, and a prepare() that finds table and index creates neither.
C18_IndexCreatedOnce ==
    []C18_OneCreator /\ [][C18_PrepareStep]_vars

C18_Witness ==
    \E p \in Procs : \E q \in Procs \ {p} :
       /\ Active(p, "prepare") /\ txn[p].pc = "index" /\ ~txn[p].created
       /\ Active(q, "prepare") /\ txn[q].idx /\ ~txn[q].created

\* ---- C19
\* the process has its timer running and no update() of it has failed
Live(p) == LoopRunning(p) /\ ~Failed(p, "update")

\* C19: with a tick every 60 seconds, of which a single one may be missed,
\* the rows of a process whose update() calls succeed are never more than 5
\* minutes old and are never deleted by the transaction of another process.
C19_LiveRowsNeverCollected ==
    \A p \in Procs :
       Live(p) =>
          /\ \A r \in Named(table, p) : clock - r.updated <= TTL
          /\ \A q \in Procs \ {p} : Named(txn[q].del, p) = {}

C19_Witness ==
    \E p \in Procs : \E q \in Procs \ {p} : \E r \in Named(table, p) :
       /\ Live(p)
       /\ clock - r.updated >= 2 * Interval
       /\ Active(q, "update") /\ txn[q].pc = "commit"
       /\ txn[q].now - r.updated >= 2 * Interval

\* ---- C20
\* a row of another name that is not older than 5 minutes at the NOW() of
\* p's transaction
FreshForeign(p, r) == r.name # p /\ r.updated >= txn[p].now - TTL

C20_Frame ==
    \A p \in Procs :
       /\ \A op \in {"update", "remove"} :
             Active(p, op) =>
                /\ \A r \in table : FreshForeign(p, r) => r \in table'
                /\ \A r \in table' \ table : r.name = p
                /\ \A r \in txn'[p].del : ~FreshForeign(p, r)
                /\ \A r \in txn'[p].ins : r.name = p
                /\ \A r \in table \ table' :
                      r.name # p => op = "update" /\ r.updated < txn[p].now - TTL
       /\ Active(p, "dump") =>
             /\ table' = table
             /\ txn'[p].del = {} /\ txn'[p].ins = {}

\* C20: no step of update() or remove() of the process named N deletes,
\* inserts or changes a row of another name that is not older than 5
\* minutes; the rows of other names that update() deletes are those its
\* collect statement selects; remove() deletes none; dump() changes no row.
C20_OnlyOwnOrStale == [][C20_Frame]_vars

C20_Witness ==
    /\ Active(Self, "update") /\ txn[Self].pc = "commit"
    /\ Named(txn[Self].del, Self) # {}
    /\ txn[Self].ins # {}
    /\ \E r \in table \ txn[Self].del :
          FreshForeign(Self, r) /\ txn[Self].now - r.updated = TTL

C20_WitnessRemove ==
    /\ Active(Self, "remove") /\ txn[Self].pc = "commit"
    /\ Named(txn[Self].del, Self) # {}
    /\ \E r \in table : r.name = Peer /\ clock - r.updated > TTL

\* ---- C21
\* a row of the crashed r2, older than 5 minutes, holds an (address, port)
\* that r1 advertises
StaleRowInTheWay ==
    \E r \in Named(table, Peer) :
       /\ clock - r.updated > TTL
       /\ getPort(Self) = <<r.port>>
       /\ r.address \in Addrs

\* C21: whenever the timer of a live process calls update() while a stale
\* row of a name that no longer runs holds an (address, port) the process
\* advertises, the rows of that process are in the registry eventually.
C21_StaleRowDoesNotBlock ==
    (StaleRowInTheWay /\ Live(Self) /\ thr[Self]["update"] = "queued")
       ~> (Named(table, Self) # {})

====
